---- MODULE Spec2Model ----
(***************************************************************************)
(* Model of src/main.py: the calendar notifier.  One pipeline run          *)
(* (run_task) fetches and expands the feed (get_calendar_events), loads    *)
(* the ledger file, filters the imminent and not-yet-notified events,      *)
(* dispatches one mail per remaining event (send_mail_for_event) and       *)
(* rewrites the ledger file.  main() makes one run at process start and    *)
(* then hands run_task to an interval scheduler.                           *)
(*                                                                         *)
(* Time is counted in minutes.  A date or datetime value of the feed is a  *)
(* record [type, v]: type "datetime" with v the instant in minutes, type   *)
(* "date" with v the day number, type "other" for any other value shape    *)
(* (a duration, a time of day, a period), and type "none" for a property   *)
(* the component does not carry (component.get(...) returns None).         *)
(***************************************************************************)
EXTENDS Integers, Sequences, FiniteSets, TLC

VARIABLES
    now,              \* the wall clock, datetime.datetime.now(), in minutes
    feed,             \* the occurrences the calendar behind CALENDAR_URL holds
    ledger_file,      \* the content of SENT_EMAIL_LOG on disk
    procs,            \* the processes running main()
    phase,            \* per process: position in main()
    pc,               \* per process: position in run_task()
    events,           \* per process: run_task's `events`
    sent_emails,      \* per process: run_task's `sent_emails`
    loaded,           \* per process: sent_emails as the current/last run loaded it
    upcoming_events,  \* per process: run_task's `upcoming_events`
    new_events,       \* per process: run_task's `new_events`
    idx,              \* per process: index of the next event of the dispatch loop
    result,           \* per process: how the current/last run ended
    dispatched,       \* per process: the dispatch calls of the current/last run
    file_before,      \* per process: ledger_file when the current/last run began
    expanded_at,      \* per process: `now` read by the expander in this run
    filtered_at,      \* per process: `now` read by the filter in this run
    emails,           \* mails delivered so far, counted per (title, start)
    runs,             \* number of runs started so far
    environ,          \* the required settings that are set in the environment
    reported,         \* per process: the missing settings check_config printed
    exit_code,        \* per process: the exit status, -1 while the process lives
    next_fire,        \* per process: next run time of the interval job, -1 before
                      \* the scheduler is started
    instances,        \* per process: executions of run_task in progress
    skipped,          \* per process: fire times skipped by the scheduler
    stop_requested    \* per process: a stop signal (SIGINT) has been delivered

vars == <<now, feed, ledger_file, procs, phase, pc, events, sent_emails,
          loaded, upcoming_events, new_events, idx, result, dispatched, file_before,
          expanded_at, filtered_at, emails, runs, environ, reported,
          exit_code, next_fire, instances, skipped, stop_requested>>

----------------------------------------------------------------------------
(* Bounds of the model *)

MaxFeed == 2       \* occurrences in the feed of the pipeline specification
MaxFeedExp == 3    \* components in the feed of the expander specification
MaxTicks == 2      \* clock advances
MaxRuns == 3       \* runs of the pipeline

(* Program constants *)

NEXT_HOURS == 24
EXPANSION_DAYS == 30
INTERVAL_MINUTES == 30

AllProcs == {1, 2}
Titles == {"A", "B"}

----------------------------------------------------------------------------
(* Date and time values *)

DT(t) == [type |-> "datetime", v |-> t]
Date(d) == [type |-> "date", v |-> d]
Other == [type |-> "other", v |-> 0]
None == [type |-> "none", v |-> 0]

\* fix_datetime raises ValueError for anything but a datetime or a date;
\* on None the caller's `.dt` already raised AttributeError.
fix_datetime_raises(dt) == dt.type \notin {"datetime", "date"}

\* fix_datetime: a datetime is returned as is, a date is combined with
\* time.min (midnight of that day).
fix_datetime(dt) ==
    IF dt.type = "datetime" THEN dt
    ELSE DT(dt.v * 24 * 60)

\* datetime.timestamp(), in minutes
timestamp(dt) == dt.v

\* isoformat() of the raw dtstart: "YYYY-MM-DD" for a date,
\* "YYYY-MM-DDTHH:MM:SS" for a datetime; the two never coincide.
isoformat(dt) ==
    IF dt.type = "date" THEN <<"date", dt.v>> ELSE <<"datetime", dt.v>>

----------------------------------------------------------------------------
(* The feed: components as recurring_ical_events yields them *)

Component(name, summary, dtstart, dtend) ==
    [name |-> name, summary |-> summary, dtstart |-> dtstart, dtend |-> dtend]

\* the end of a well-formed occurrence: one hour / one day after its start
EndOf(dt) == IF dt.type = "date" THEN Date(dt.v + 1) ELSE DT(dt.v + 60)

PipelineStarts == {DT(60), DT(NEXT_HOURS * 60), DT((NEXT_HOURS + 1) * 60)}

PipelineComponents ==
    {Component("VEVENT", "A", d, EndOf(d)) : d \in PipelineStarts}
    \cup {Component("VEVENT", "B", DT(60), DT(120))}

ExpanderStarts == {DT(0), DT(60), Date(0), Date(1)}

ExpanderComponents ==
    {Component("VEVENT", s, d, EndOf(d)) : s \in Titles, d \in ExpanderStarts}
    \cup {Component("VTODO", "A", DT(60), DT(120)),
          Component("VEVENT", "A", None, DT(120)),
          Component("VEVENT", "A", Other, DT(120)),
          Component("VEVENT", "A", DT(60), None),
          Component("VEVENT", "B", DT(60), Other)}

\* the sequences of at most n different elements of S
BoundedSeq(S, n) ==
    {q \in UNION {[1..k -> S] : k \in 0..n} :
        \A i, j \in DOMAIN q : q[i] = q[j] => i = j}

\* recurring_ical_events.of(cal).between(now, now + 30 days): the occurrences
\* that overlap the interval; an occurrence that began before `now` and has
\* not ended yet is yielded.  A component whose start or end cannot be read
\* is passed on as it is.
InExpansionWindow(c, t) ==
    IF fix_datetime_raises(c.dtstart) \/ fix_datetime_raises(c.dtend) THEN TRUE
    ELSE /\ timestamp(fix_datetime(c.dtstart)) <= t + EXPANSION_DAYS * 24 * 60
         /\ timestamp(fix_datetime(c.dtend)) >= t

between(cal, t) == SelectSeq(cal, LAMBDA c : InExpansionWindow(c, t))

----------------------------------------------------------------------------
(* get_calendar_events: the body of the loop over the yielded components *)

\* the event dict appended at lines 86-92 (description and location carry
\* no control flow and are left out)
EventOf(c) == [summary |-> c.summary, dtstart |-> c.dtstart, dtend |-> c.dtend]

\* Faulty variant of component_outcome: the past check of line 83 is missing.
component_outcome_nopast(c, t) ==
    IF c.name # "VEVENT" THEN "ignored"
    ELSE IF c.dtstart.type = "none" THEN "error"
    ELSE IF fix_datetime_raises(c.dtstart) THEN "error"
    ELSE IF c.dtend.type = "none" THEN "error"
    ELSE "append"

\* What one iteration does with component c at time t:
\*   "ignored"  not a VEVENT (line 76)
\*   "error"    an exception inside the try, caught at line 93
\*   "past"     start before now, `continue` at line 84
\*   "append"   the event is appended
component_outcome(c, t) ==
    IF c.name # "VEVENT" THEN "ignored"
    ELSE IF c.dtstart.type = "none" THEN "error"          \* None.dt
    ELSE IF fix_datetime_raises(c.dtstart) THEN "error"   \* ValueError
    ELSE IF timestamp(fix_datetime(c.dtstart)) < t THEN "past"
    ELSE IF c.dtend.type = "none" THEN "error"            \* None.dt
    ELSE "append"

\* Faulty variant of expand_loop: the try is around the loop, so the first
\* exception ends the batch.
RECURSIVE expand_loop_abort(_, _, _)
expand_loop_abort(comps, t, acc) ==
    IF comps = <<>> THEN acc
    ELSE LET o == component_outcome(Head(comps), t) IN
         IF o = "error" THEN acc
         ELSE expand_loop_abort(Tail(comps), t,
                  IF o = "append" THEN Append(acc, EventOf(Head(comps))) ELSE acc)

\* the for loop of lines 74-95
RECURSIVE expand_loop(_, _, _)
expand_loop(comps, t, acc) ==
    IF comps = <<>> THEN acc
    ELSE expand_loop(Tail(comps), t,
             IF component_outcome(Head(comps), t) = "append"
             THEN Append(acc, EventOf(Head(comps)))
             ELSE acc)

expand_components_abort(comps, t) == expand_loop_abort(comps, t, <<>>)

expand_components(comps, t) == expand_loop(comps, t, <<>>)

\* get_calendar_events once the response has been received and parsed
get_calendar_events(cal, t) == expand_components(between(cal, t), t)

----------------------------------------------------------------------------
(* The ledger: SENT_EMAIL_LOG on disk and sent_emails in memory *)

\* A JSON value as json.load returns it: an object (a dict from titles to
\* ISO strings), a list or a string (both support `in`, neither supports
\* assignment by title; `items` are the titles `in` answers True for), or a
\* number, true, false or null (no `in` at all).
Value(kind, map, items) == [kind |-> kind, map |-> map, items |-> items]

EmptyMap == [s \in {} |-> <<"date", 0>>]
EmptyDict == Value("object", EmptyMap, {})

\* The file: absent, text that is no JSON ("corrupt"), bytes that are no
\* text ("undecodable"), or the text of a JSON value.  `canon` tells whether
\* the text is byte for byte what json.dump writes for the value.
File(kind, map, items, canon) ==
    [kind |-> kind, map |-> map, items |-> items, canon |-> canon]

AbsentFile == File("absent", EmptyMap, {}, FALSE)
CorruptFile == File("corrupt", EmptyMap, {}, FALSE)
UndecodableFile == File("undecodable", EmptyMap, {}, FALSE)

\* json.dump(value, f) on a file opened with 'w'
json_dump(value) == File(value.kind, value.map, value.items, TRUE)

\* json.load(f) of a file that parses
json_load(f) == Value(f.kind, f.map, f.items)

\* title in sent_emails (line 137); TypeError on a number
contains_raises(ledger) == ledger.kind = "number"

contains(ledger, title) ==
    IF ledger.kind = "object" THEN title \in DOMAIN ledger.map
    ELSE title \in ledger.items

\* sent_emails[title] = iso (line 145); TypeError on a list or a string
setitem_raises(ledger) == ledger.kind # "object"

\* Faulty variant of setitem: the new entry replaces the whole mapping.
setitem_fresh(ledger, title, iso) ==
    Value("object", [s \in {title} |-> iso], {})

setitem(ledger, title, iso) ==
    Value("object",
          [s \in (DOMAIN ledger.map) \cup {title} |->
              IF s = title THEN iso ELSE ledger.map[s]],
          {})

InitialFiles ==
    {AbsentFile, CorruptFile, UndecodableFile,
     File("number", EmptyMap, {}, TRUE),
     File("list", EmptyMap, {}, TRUE),
     File("list", EmptyMap, {"A"}, TRUE),
     File("object", EmptyMap, {}, TRUE),
     File("object", [s \in {"A"} |-> isoformat(DT(60))], {}, TRUE),
     File("object", [s \in {"A"} |-> isoformat(DT(60))], {}, FALSE)}

----------------------------------------------------------------------------
(* The filter of run_task *)

\* Faulty variant of is_upcoming: <= instead of <.
is_upcoming_le(event, t) ==
    timestamp(fix_datetime(event.dtstart)) <= t + NEXT_HOURS * 60

\* lines 126-127: start_unix < (now + NEXT_HOURS hours).timestamp()
is_upcoming(event, t) ==
    timestamp(fix_datetime(event.dtstart)) < t + NEXT_HOURS * 60

\* Faulty variant of is_new: the ledger is asked for the title with this
\* start, not for the title alone.
is_new_by_start(event, ledger) ==
    ~ (/\ contains(ledger, event.summary)
       /\ ledger.kind = "object"
       /\ ledger.map[event.summary] = isoformat(event.dtstart))

\* line 137: event['summary'] not in sent_emails
is_new(event, ledger) == ~ contains(ledger, event.summary)

----------------------------------------------------------------------------
(* send_mail_for_event *)

\* What a call can do: "sent" (True is returned after sendmail), "failed"
\* (an exception inside the try of lines 185-194, False is returned) or
\* "raised" (an exception in lines 153-181, outside the try: the template
\* cannot be loaded or rendered, the attachment cannot be built, or dtend is
\* not a date, which line 155 hands to datetime.combine).
dispatch_outcomes(event) ==
    IF fix_datetime_raises(event.dtend) THEN {"raised"}
    ELSE {"sent", "failed", "raised"}

EmailKey(event) == <<event.summary, isoformat(event.dtstart)>>

EmailKeys == {<<s, isoformat(d)>> : s \in Titles, d \in PipelineStarts}

----------------------------------------------------------------------------
(* check_config and the scheduler's settings *)

RequiredVars ==
    {"CALENDAR_URL", "SMTP_HOST", "SMTP_PORT", "SMTP_USER", "SMTP_PASSWORD",
     "EMAIL_FROM", "EMAIL_TO"}

\* line 37: the required settings the environment does not hold
missing_vars(env) == RequiredVars \ env

\* Faulty variant of check_config: only the calendar URL is looked at.
check_config_url_only(env) == "CALENDAR_URL" \in env

\* check_config, lines 27-41
check_config(env) == missing_vars(env) = {}

\* the environments tried: everything set, one setting absent, nothing set
Environments ==
    {RequiredVars} \cup {RequiredVars \ {k} : k \in RequiredVars} \cup {{}}

\* add_job(run_task, 'interval', minutes=30) gives no max_instances: the
\* scheduler's default of one running instance per job applies.
max_instances == 1

\* Faulty variant of may_submit: the running instances are not counted.
may_submit_always(n) == TRUE

\* the scheduler submits a due job only while fewer than max_instances
\* executions of it are in progress; otherwise the fire time is skipped
may_submit(n) == n < max_instances

\* Faulty variant of write_ledger: the entries on disk are kept and merged.
write_ledger_merge(file, ledger) ==
    IF file.kind = "object" /\ ledger.kind = "object"
    THEN json_dump(Value("object",
                         [s \in (DOMAIN file.map) \cup (DOMAIN ledger.map) |->
                             IF s \in DOMAIN ledger.map THEN ledger.map[s]
                             ELSE file.map[s]],
                         {}))
    ELSE json_dump(ledger)

\* lines 147-148: open(SENT_EMAIL_LOG, 'w') truncates the file, json.dump
\* writes sent_emails
write_ledger(file, ledger) == json_dump(ledger)

----------------------------------------------------------------------------
(* Initial states *)

InitLocals ==
    /\ phase = [p \in AllProcs |-> "start"]
    /\ pc = [p \in AllProcs |-> "idle"]
    /\ events = [p \in AllProcs |-> <<>>]
    /\ sent_emails = [p \in AllProcs |-> EmptyDict]
    /\ loaded = [p \in AllProcs |-> EmptyDict]
    /\ upcoming_events = [p \in AllProcs |-> <<>>]
    /\ new_events = [p \in AllProcs |-> <<>>]
    /\ idx = [p \in AllProcs |-> 1]
    /\ result = [p \in AllProcs |-> "none"]
    /\ dispatched = [p \in AllProcs |-> <<>>]
    /\ file_before = [p \in AllProcs |-> AbsentFile]
    /\ expanded_at = [p \in AllProcs |-> -1]
    /\ filtered_at = [p \in AllProcs |-> -1]
    /\ emails = [k \in EmailKeys |-> 0]
    /\ runs = 0
    /\ reported = [p \in AllProcs |-> {}]
    /\ exit_code = [p \in AllProcs |-> -1]
    /\ next_fire = [p \in AllProcs |-> -1]
    /\ instances = [p \in AllProcs |-> 0]
    /\ skipped = [p \in AllProcs |-> 0]
    /\ stop_requested = [p \in AllProcs |-> FALSE]

Init ==
    /\ now = 0
    /\ feed \in BoundedSeq(PipelineComponents, MaxFeed)
    /\ ledger_file \in InitialFiles
    /\ environ \in Environments
    /\ procs = {1}
    /\ InitLocals

InitExpander ==
    /\ now = 0
    /\ feed \in BoundedSeq(ExpanderComponents, MaxFeedExp)
    /\ ledger_file = AbsentFile
    /\ environ = RequiredVars
    /\ procs = {1}
    /\ InitLocals

----------------------------------------------------------------------------
(* Actions *)

\* Time passes.  The clock is observed every INTERVAL_MINUTES minutes.  A
\* running scheduler wakes up at the fire time of its job, so the clock does
\* not pass a fire time before the scheduler has handled it; and main goes
\* from the end of the first run to the start of the scheduler (lines
\* 203-210) without waiting for anything.
Tick ==
    /\ now < MaxTicks * INTERVAL_MINUTES
    /\ \A p \in procs :
          /\ phase[p] # "starting"
          /\ (phase[p] = "scheduler" /\ ~ stop_requested[p]) => now < next_fire[p]
    /\ now' = now + INTERVAL_MINUTES
    /\ UNCHANGED <<feed, ledger_file, procs, phase, pc, events, sent_emails,
                   loaded, upcoming_events, new_events, idx, result, dispatched,
                   file_before, expanded_at, filtered_at, emails, runs,
                   environ, reported, exit_code, next_fire, instances, skipped,
                   stop_requested>>

IsRaise(res) == res \in {"raised_fetch", "raised_ledger", "raised_dispatch"}

\* run_task returns or raises with outcome res, leaving n executions in
\* progress.  An exception of the first run (main, line 201) leaves main and
\* ends the process with a traceback and status 1.  An exception of a
\* scheduled run is caught and logged by the scheduler's executor.  When a
\* shutdown is waiting for the run (line 213), the process then ends with
\* status 0.
Finish(p, res, n) ==
    /\ result' = [result EXCEPT ![p] = res]
    /\ instances' = [instances EXCEPT ![p] = n]
    /\ IF phase[p] \in {"start", "first"}
       THEN IF IsRaise(res)
            THEN /\ phase' = [phase EXCEPT ![p] = "exited"]
                 /\ pc' = [pc EXCEPT ![p] = "dead"]
                 /\ exit_code' = [exit_code EXCEPT ![p] = 1]
            ELSE /\ phase' = [phase EXCEPT ![p] = "starting"]
                 /\ pc' = [pc EXCEPT ![p] = "idle"]
                 /\ UNCHANGED exit_code
       ELSE IF stop_requested[p]
            THEN /\ phase' = [phase EXCEPT ![p] = "exited"]
                 /\ pc' = [pc EXCEPT ![p] = "dead"]
                 /\ exit_code' = [exit_code EXCEPT ![p] = 0]
            ELSE /\ pc' = [pc EXCEPT ![p] = "idle"]
                 /\ UNCHANGED <<phase, exit_code>>

\* Faulty variant of no_events: the run goes on with an empty batch.
no_events_never(evs) == FALSE

\* line 103: if not events
no_events(evs) == evs = <<>>

\* run_task, lines 99-105: fetch the feed and expand it.
BeginRun(p) ==
    /\ runs < MaxRuns
    /\ runs' = runs + 1
    /\ file_before' = [file_before EXCEPT ![p] = ledger_file]
    /\ dispatched' = [dispatched EXCEPT ![p] = <<>>]
    /\ sent_emails' = [sent_emails EXCEPT ![p] = EmptyDict]
    /\ loaded' = [loaded EXCEPT ![p] = EmptyDict]
    /\ upcoming_events' = [upcoming_events EXCEPT ![p] = <<>>]
    /\ new_events' = [new_events EXCEPT ![p] = <<>>]
    /\ idx' = [idx EXCEPT ![p] = 1]
    /\ filtered_at' = [filtered_at EXCEPT ![p] = -1]
    /\ \/ \* requests.get, raise_for_status or Calendar.from_ical raises
          /\ events' = [events EXCEPT ![p] = <<>>]
          /\ expanded_at' = [expanded_at EXCEPT ![p] = -1]
          /\ Finish(p, "raised_fetch", instances[p])
       \/ LET evs == get_calendar_events(feed, now) IN
          /\ events' = [events EXCEPT ![p] = evs]
          /\ expanded_at' = [expanded_at EXCEPT ![p] = now]
          /\ IF no_events(evs)
             THEN Finish(p, "no_events", instances[p])
             ELSE /\ result' = [result EXCEPT ![p] = "running"]
                  /\ pc' = [pc EXCEPT ![p] = "load"]
                  /\ phase' = [phase EXCEPT ![p] =
                                  IF @ = "start" THEN "first" ELSE @]
                  /\ instances' = [instances EXCEPT ![p] = @ + 1]
                  /\ UNCHANGED exit_code
    /\ UNCHANGED <<now, feed, ledger_file, procs, emails, environ>>

\* main, lines 196-201: the configuration check, then the run made at
\* process start
main(p) ==
    /\ p \in procs
    /\ phase[p] = "start"
    /\ IF check_config(environ)
       THEN /\ BeginRun(p)
            /\ UNCHANGED <<reported, next_fire, skipped, stop_requested>>
       ELSE /\ reported' = [reported EXCEPT ![p] = missing_vars(environ)]
            /\ phase' = [phase EXCEPT ![p] = "exited"]
            /\ pc' = [pc EXCEPT ![p] = "dead"]
            /\ exit_code' = [exit_code EXCEPT ![p] = 1]
            /\ UNCHANGED <<now, feed, ledger_file, procs, events, sent_emails,
                           loaded, upcoming_events, new_events, idx, result,
                           dispatched, file_before, expanded_at, filtered_at,
                           emails, runs, environ, next_fire, instances,
                           skipped, stop_requested>>

\* main, lines 203-210: the scheduler is created, the job is added and the
\* scheduler is started; the job first fires one interval later
start_scheduler(p) ==
    /\ p \in procs
    /\ phase[p] = "starting"
    /\ phase' = [phase EXCEPT ![p] = "scheduler"]
    /\ next_fire' = [next_fire EXCEPT ![p] = now + INTERVAL_MINUTES]
    /\ UNCHANGED <<now, feed, ledger_file, procs, pc, events, sent_emails,
                   loaded, upcoming_events, new_events, idx, result, dispatched,
                   file_before, expanded_at, filtered_at, emails, runs,
                   environ, reported, exit_code, instances, skipped,
                   stop_requested>>

\* the job of line 204 is due: the scheduler submits run_task, or skips the
\* fire time when an execution is still in progress
interval_job(p) ==
    /\ p \in procs
    /\ phase[p] = "scheduler"
    /\ ~ stop_requested[p]
    /\ now >= next_fire[p]
    /\ next_fire' = [next_fire EXCEPT ![p] = @ + INTERVAL_MINUTES]
    /\ IF may_submit(instances[p])
       THEN /\ BeginRun(p)
            /\ UNCHANGED <<reported, skipped, stop_requested>>
       ELSE /\ skipped' = [skipped EXCEPT ![p] = @ + 1]
            /\ UNCHANGED <<now, feed, ledger_file, procs, phase, pc, events,
                           sent_emails, loaded, upcoming_events, new_events,
                           idx, result, dispatched, file_before, expanded_at,
                           filtered_at, emails, runs, environ, reported,
                           exit_code, instances, stop_requested>>

\* run_task, lines 107-141: load the ledger, keep the imminent events, keep
\* those whose title the ledger does not hold.
LoadAndFilter(p) ==
    /\ p \in procs
    /\ pc[p] = "load"
    /\ UNCHANGED <<now, feed, procs, events, idx, dispatched, file_before,
                   expanded_at, emails, runs, environ, reported, next_fire,
                   skipped, stop_requested>>
    /\ IF ledger_file.kind = "undecodable"
       THEN \* UnicodeDecodeError is not caught at line 110
            /\ Finish(p, "raised_ledger", instances[p] - 1)
            /\ UNCHANGED <<ledger_file, sent_emails, loaded, upcoming_events,
                           new_events, filtered_at>>
       ELSE LET value == IF ledger_file.kind \in {"absent", "corrupt"}
                          THEN EmptyDict
                          ELSE json_load(ledger_file)
                up == SelectSeq(events[p], LAMBDA e : is_upcoming(e, now))
                ne == SelectSeq(up, LAMBDA e : is_new(e, value))
            IN
            /\ ledger_file' = IF ledger_file.kind = "absent"
                              THEN json_dump(EmptyDict)   \* lines 113-118
                              ELSE ledger_file
            /\ sent_emails' = [sent_emails EXCEPT ![p] = value]
            /\ loaded' = [loaded EXCEPT ![p] = value]
            /\ upcoming_events' = [upcoming_events EXCEPT ![p] = up]
            /\ filtered_at' = [filtered_at EXCEPT ![p] = now]
            /\ IF up = <<>>
               THEN /\ Finish(p, "no_upcoming", instances[p] - 1)
                    /\ UNCHANGED new_events
               ELSE IF contains_raises(value)
               THEN /\ Finish(p, "raised_ledger", instances[p] - 1)
                    /\ UNCHANGED new_events
               ELSE /\ new_events' = [new_events EXCEPT ![p] = ne]
                    /\ IF ne = <<>>
                       THEN Finish(p, "no_new", instances[p] - 1)
                       ELSE /\ pc' = [pc EXCEPT ![p] = "dispatch"]
                            /\ UNCHANGED <<phase, result, instances, exit_code>>

\* run_task, lines 143-148: one iteration of the loop over new_events; the
\* iteration of the last event goes on to write the ledger file.
Dispatch(p) ==
    /\ p \in procs
    /\ pc[p] = "dispatch"
    /\ UNCHANGED <<now, feed, procs, events, loaded, upcoming_events,
                   new_events, file_before, expanded_at, filtered_at, runs,
                   environ, reported, next_fire, skipped, stop_requested>>
    /\ LET event == new_events[p][idx[p]]
           last == idx[p] = Len(new_events[p])
       IN
       \E outcome \in dispatch_outcomes(event) :
          /\ dispatched' = [dispatched EXCEPT ![p] =
                   Append(@, [event |-> event, outcome |-> outcome, at |-> now])]
          /\ emails' = IF outcome = "sent"
                       THEN [emails EXCEPT ![EmailKey(event)] = @ + 1]
                       ELSE emails
          /\ IF outcome = "raised"
             THEN /\ Finish(p, "raised_dispatch", instances[p] - 1)
                  /\ UNCHANGED <<ledger_file, sent_emails, idx>>
             ELSE IF outcome = "sent" /\ setitem_raises(sent_emails[p])
             THEN /\ Finish(p, "raised_ledger", instances[p] - 1)
                  /\ UNCHANGED <<ledger_file, sent_emails, idx>>
             ELSE LET ledger == IF outcome = "sent"
                                THEN setitem(sent_emails[p], event.summary,
                                             isoformat(event.dtstart))
                                ELSE sent_emails[p]
                  IN
                  /\ sent_emails' = [sent_emails EXCEPT ![p] = ledger]
                  /\ idx' = [idx EXCEPT ![p] = @ + 1]
                  /\ IF last
                     THEN /\ ledger_file' = write_ledger(ledger_file, ledger)
                          /\ Finish(p, "persisted", instances[p] - 1)
                     ELSE /\ UNCHANGED <<ledger_file, pc, phase, result,
                                         instances, exit_code>>

\* A stop signal (SIGINT) reaches process p; Python raises KeyboardInterrupt
\* in the main thread.  During the first run and until the try of line 208
\* is entered the main thread is outside any handler: the run is cut short
\* and the process ends with the interrupt's status.  Inside
\* scheduler.start() the handler of lines 211-213 calls scheduler.shutdown(),
\* which waits for an execution in progress and fires nothing more.
Signal(p) ==
    /\ p \in procs
    /\ ~ stop_requested[p]
    /\ phase[p] \in {"first", "starting", "scheduler"}
    /\ stop_requested' = [stop_requested EXCEPT ![p] = TRUE]
    /\ IF phase[p] \in {"first", "starting"}
       THEN /\ result' = [result EXCEPT ![p] =
                             IF phase[p] = "first" THEN "interrupted" ELSE @]
            /\ instances' = [instances EXCEPT ![p] = 0]
            /\ phase' = [phase EXCEPT ![p] = "exited"]
            /\ pc' = [pc EXCEPT ![p] = "dead"]
            /\ exit_code' = [exit_code EXCEPT ![p] = 130]
       ELSE IF pc[p] = "idle"
       THEN /\ phase' = [phase EXCEPT ![p] = "exited"]
            /\ pc' = [pc EXCEPT ![p] = "dead"]
            /\ exit_code' = [exit_code EXCEPT ![p] = 0]
            /\ UNCHANGED <<result, instances>>
       ELSE UNCHANGED <<result, instances, phase, pc, exit_code>>
    /\ UNCHANGED <<now, feed, ledger_file, procs, events, sent_emails, loaded,
                   upcoming_events, new_events, idx, dispatched, file_before,
                   expanded_at, filtered_at, emails, runs, environ, reported,
                   next_fire, skipped>>

\* The expander alone: get_calendar_events applied to the feed at the
\* current time.
Expand(p) ==
    /\ p \in procs
    /\ events' = [events EXCEPT ![p] = get_calendar_events(feed, now)]
    /\ expanded_at' = [expanded_at EXCEPT ![p] = now]
    /\ UNCHANGED <<now, feed, ledger_file, procs, phase, pc, sent_emails,
                   loaded, upcoming_events, new_events, idx, result, dispatched,
                   file_before, filtered_at, emails, runs, environ, reported,
                   exit_code, next_fire, instances, skipped, stop_requested>>

Next ==
    \/ Tick
    \/ \E p \in AllProcs : main(p)
    \/ \E p \in AllProcs : start_scheduler(p)
    \/ \E p \in AllProcs : interval_job(p)
    \/ \E p \in AllProcs : LoadAndFilter(p)
    \/ \E p \in AllProcs : Dispatch(p)
    \/ \E p \in AllProcs : Signal(p)

Spec == Init /\ [][Next]_vars

NextExpander ==
    \/ Tick
    \/ \E p \in AllProcs : Expand(p)

SpecExpander == InitExpander /\ [][NextExpander]_vars

TypeOK ==
    /\ now \in 0..(MaxTicks * INTERVAL_MINUTES)
    /\ runs \in 0..MaxRuns
    /\ \A p \in AllProcs :
          /\ pc[p] \in {"idle", "load", "dispatch", "dead"}
          /\ phase[p] \in {"start", "first", "starting", "scheduler", "exited"}
          /\ instances[p] \in 0..1
          /\ exit_code[p] \in {-1, 0, 1, 130}
          /\ result[p] \in {"none", "running", "no_events", "no_upcoming",
                            "no_new", "persisted", "raised_fetch",
                            "raised_ledger", "raised_dispatch",
                            "interrupted"}

----------------------------------------------------------------------------
(* Properties *)

Normalized(event) == timestamp(fix_datetime(event.dtstart))

InSeq(x, q) == \E i \in DOMAIN q : q[i] = x

RunEnded(p) == pc[p] \in {"idle", "dead"} /\ result[p] \notin {"none", "running"}

\* C1: over any sequence of runs against the same feed, no event instance
\* (a title with a start) is successfully emailed more than once.
NoInstanceEmailedTwice == \A k \in EmailKeys : emails[k] <= 1

\* C2: a run makes no dispatch attempt for an event whose title is in the
\* ledger that run loaded, whatever the event's start and however many
\* occurrences share the title.
Idempotence ==
    \A p \in AllProcs : \A k \in DOMAIN dispatched[p] :
        ~ contains(loaded[p], dispatched[p][k].event.summary)

\* C2 witness: a run has filtered with two imminent occurrences of different
\* starts whose title the loaded ledger holds, and ended without a dispatch.
IdempotenceWitness ==
    \E p \in procs :
        /\ result[p] = "no_new"
        /\ \E i, j \in DOMAIN upcoming_events[p] :
              /\ upcoming_events[p][i].dtstart # upcoming_events[p][j].dtstart
              /\ upcoming_events[p][i].summary = upcoming_events[p][j].summary
              /\ contains(loaded[p], upcoming_events[p][i].summary)
              /\ loaded[p].kind = "object"
              /\ loaded[p].map[upcoming_events[p][i].summary]
                    # isoformat(upcoming_events[p][j].dtstart)

\* C3: in one run, no two dispatches are made for the same title.
AtMostOneSend ==
    \A p \in AllProcs : \A i, j \in DOMAIN dispatched[p] :
        dispatched[p][i].event.summary = dispatched[p][j].event.summary => i = j

\* C4: a run that went through its dispatch loop with every dispatch
\* returning failure leaves the ledger file as it was before the run,
\* whether the file held a valid mapping or invalid content.
LedgerWriteOnlyOnSuccess ==
    \A p \in procs :
        ( /\ result[p] = "persisted"
          /\ file_before[p].kind # "absent"
          /\ \A k \in DOMAIN dispatched[p] : dispatched[p][k].outcome = "failed" )
        => ledger_file = file_before[p]

\* C5 as stated: an expanded instance passes the window step exactly when
\* its normalized start is <= now + 24 hours.
WindowInclusive ==
    \A p \in AllProcs : filtered_at[p] >= 0 =>
        upcoming_events[p] =
            SelectSeq(events[p],
                      LAMBDA e : Normalized(e) <= filtered_at[p] + 24 * 60)

\* C5 amended: an expanded instance passes the window step exactly when its
\* normalized start is strictly before now + 24 hours; an instance starting
\* exactly at the cutoff is discarded.
WindowStrict ==
    \A p \in AllProcs : filtered_at[p] >= 0 =>
        upcoming_events[p] =
            SelectSeq(events[p],
                      LAMBDA e : Normalized(e) < filtered_at[p] + 24 * 60)

\* C5 witness: a run has filtered a batch that holds an instance before the
\* cutoff (kept) and an instance exactly at the cutoff (discarded).
WindowWitness ==
    \E p \in procs :
        /\ filtered_at[p] >= 0
        /\ \E e \in {events[p][i] : i \in DOMAIN events[p]} :
              /\ Normalized(e) = filtered_at[p] + 24 * 60
              /\ ~ InSeq(e, upcoming_events[p])
        /\ \E e \in {events[p][i] : i \in DOMAIN events[p]} :
              /\ Normalized(e) < filtered_at[p] + 24 * 60
              /\ InSeq(e, upcoming_events[p])

\* C6: the expander's output never holds an instance whose normalized start
\* is before the time of the expansion.
PastInstanceExclusion ==
    \A p \in AllProcs : expanded_at[p] >= 0 =>
        \A k \in DOMAIN events[p] : Normalized(events[p][k]) >= expanded_at[p]

\* C6 witness: the library yielded an occurrence that had already begun, and
\* the expander returned a non-empty batch without it.
PastInstanceWitness ==
    \E p \in procs :
        /\ expanded_at[p] > 0
        /\ events[p] # <<>>
        /\ \E i \in DOMAIN between(feed, expanded_at[p]) :
              LET c == between(feed, expanded_at[p])[i] IN
              /\ c.name = "VEVENT"
              /\ ~ fix_datetime_raises(c.dtstart)
              /\ c.dtend.type # "none"
              /\ timestamp(fix_datetime(c.dtstart)) < expanded_at[p]
              /\ ~ InSeq(EventOf(c), events[p])

WellFormedFuture(c, t) ==
    /\ c.name = "VEVENT"
    /\ c.dtstart.type \in {"datetime", "date"}
    /\ c.dtend.type # "none"
    /\ (IF c.dtstart.type = "date" THEN c.dtstart.v * 24 * 60 ELSE c.dtstart.v) >= t

Malformed(c) ==
    c.name = "VEVENT"
    /\ (c.dtstart.type \notin {"datetime", "date"} \/ c.dtend.type = "none")

\* C7: the expander's output is exactly the well-formed future VEVENTs of
\* the yielded sequence, one instance each, in input order; malformed
\* components in between are skipped and end nothing.
PartialFailureIsolation ==
    \A p \in AllProcs : expanded_at[p] >= 0 =>
        LET good == SelectSeq(between(feed, expanded_at[p]),
                              LAMBDA c : WellFormedFuture(c, expanded_at[p]))
        IN events[p] = [i \in 1..Len(good) |-> EventOf(good[i])]

\* C7 witness: three components were yielded, the second malformed, the
\* first and third well-formed and in the future, and both are in the output.
PartialFailureWitness ==
    \E p \in procs :
        /\ expanded_at[p] >= 0
        /\ Len(between(feed, expanded_at[p])) = 3
        /\ LET y == between(feed, expanded_at[p]) IN
           /\ WellFormedFuture(y[1], expanded_at[p])
           /\ Malformed(y[2])
           /\ WellFormedFuture(y[3], expanded_at[p])
           /\ events[p] = <<EventOf(y[1]), EventOf(y[3])>>

\* C8: a run that finds the ledger file holding text that does not parse, or
\* a JSON value that is not an object, proceeds with an empty ledger and
\* does not raise.
CorruptLedgerRecovery ==
    \A p \in procs :
        file_before[p].kind \in {"corrupt", "list", "number"} =>
            /\ result[p] # "raised_ledger"
            /\ (filtered_at[p] >= 0 => loaded[p] = EmptyDict)

\* C9: no run ends with an exception raised by the dispatcher.
DispatchFailureIsolation ==
    \A p \in procs : result[p] # "raised_dispatch"

\* C10: when a run has gone through its dispatch loop, the title of every
\* event whose dispatch failed is not recorded by that run, so that the
\* event is due again in the next run.
RetryAfterFailedDispatch ==
    \A p \in procs :
        result[p] = "persisted" =>
            \A k \in DOMAIN dispatched[p] :
                dispatched[p][k].outcome = "failed" =>
                    ~ contains(sent_emails[p], dispatched[p][k].event.summary)

\* C11: a fetch failure ends only the run it happens in, the first run at
\* process start included: the process never ends with an error status
\* because a run's fetch failed.
FetchFailureKeepsRunning ==
    \A p \in procs : result[p] = "raised_fetch" => exit_code[p] # 1

\* C12: a run that ended before the filter, because the fetch failed or the
\* expansion gave no instance, made no dispatch attempt, did not read the
\* ledger file, and left the file as it found it (absent if it was absent).
EarlyEndTouchesNothing ==
    \A p \in procs :
        (RunEnded(p) /\ events[p] = <<>>) =>
            /\ dispatched[p] = <<>>
            /\ filtered_at[p] = -1
            /\ loaded[p] = EmptyDict
            /\ sent_emails[p] = EmptyDict
            /\ ledger_file = file_before[p]

\* C12 witness: the first run found no instance and a scheduled run's fetch
\* failed, and the ledger file, absent at process start, is still absent.
EarlyEndWitness ==
    \E p \in procs :
        /\ runs >= 2
        /\ phase[p] = "scheduler"
        /\ result[p] = "raised_fetch"
        /\ ledger_file = AbsentFile

SentIn(p) == {k \in DOMAIN dispatched[p] : dispatched[p][k].outcome = "sent"}

\* C13: after a run with at least one successful dispatch has returned, the
\* ledger file holds the mapping the run loaded plus, for each successfully
\* dispatched event, the entry title -> start (ISO-8601); nothing loaded is
\* lost or altered and nothing else is added.
PersistedLedgerExact ==
    \A p \in procs :
        (result[p] = "persisted" /\ SentIn(p) # {}) =>
            /\ ledger_file.kind = "object"
            /\ DOMAIN ledger_file.map =
                  (DOMAIN loaded[p].map) \cup
                  {dispatched[p][k].event.summary : k \in SentIn(p)}
            /\ \A s \in DOMAIN loaded[p].map :
                  ledger_file.map[s] = loaded[p].map[s]
            /\ \A k \in SentIn(p) :
                  ledger_file.map[dispatched[p][k].event.summary] =
                      isoformat(dispatched[p][k].event.dtstart)

\* C14: at no time are two executions of run_task in progress in a process,
\* also when a run lasts beyond the next fire time of the interval job; the
\* scheduler, and with it every interval run, exists only once the run made
\* at process start has ended.
RunsNeverOverlap ==
    \A p \in procs :
        /\ instances[p] <= 1
        /\ (instances[p] = 1) = (pc[p] \in {"load", "dispatch"})
        /\ (phase[p] \in {"start", "first"} => next_fire[p] = -1)
        /\ (next_fire[p] >= 0 => runs >= 1)

\* C14 witness: a scheduled run is still in progress after a fire time of
\* the job has come, and the scheduler has skipped that fire time.
LateTickSkippedWitness ==
    \E p \in procs :
        /\ phase[p] = "scheduler"
        /\ pc[p] \in {"load", "dispatch"}
        /\ instances[p] = 1
        /\ skipped[p] >= 1
        /\ runs >= 2

\* C15: when a required setting is absent, the only thing the process does
\* is to end with status 1 having reported exactly the missing settings: no
\* step starts a run, fetches, dispatches, touches the ledger file or starts
\* the scheduler.
FailFastConfig ==
    [][missing_vars(environ) # {} =>
          /\ runs' = runs
          /\ events' = events
          /\ expanded_at' = expanded_at
          /\ dispatched' = dispatched
          /\ emails' = emails
          /\ ledger_file' = ledger_file
          /\ filtered_at' = filtered_at
          /\ next_fire' = next_fire
          /\ \A p \in procs :
                phase'[p] # phase[p] =>
                    /\ phase[p] = "start"
                    /\ phase'[p] = "exited"
                    /\ exit_code'[p] = 1
                    /\ reported'[p] = missing_vars(environ)]_vars

\* C15 witness: one setting is absent, and the process has ended with
\* status 1 and that setting reported, with no run made, no ledger file
\* created and no scheduler started.
FailFastWitness ==
    \E p \in procs :
        /\ Cardinality(missing_vars(environ)) = 1
        /\ phase[p] = "exited"
        /\ exit_code[p] = 1
        /\ reported[p] = missing_vars(environ)
        /\ runs = 0
        /\ result[p] = "none"
        /\ ledger_file = AbsentFile
        /\ next_fire[p] = -1

\* C16: a stop signal never cuts a run short, whether the run is the one
\* made at process start or a scheduled one: no run ends interrupted.
GracefulShutdown ==
    \A p \in procs : result[p] # "interrupted"

\* C19: while the ledger file holds a mapping and runs do not overlap, no
\* step of a run removes a title from the file or changes the instant
\* stored for a title that the file already holds.
LedgerMonotone ==
    [][ledger_file.kind = "object" =>
          /\ ledger_file'.kind = "object"
          /\ DOMAIN ledger_file.map \subseteq DOMAIN ledger_file'.map
          /\ \A s \in DOMAIN ledger_file.map :
                ledger_file'.map[s] = ledger_file.map[s]]_vars

\* C19 witness: a run after the first found a non-empty mapping in the file
\* and wrote a file with one more title, the entries it found kept as they
\* were.
LedgerMonotoneWitness ==
    \E p \in procs :
        /\ runs >= 2
        /\ result[p] = "persisted"
        /\ file_before[p].kind = "object"
        /\ DOMAIN file_before[p].map # {}
        /\ ledger_file.kind = "object"
        /\ DOMAIN file_before[p].map \subseteq DOMAIN ledger_file.map
        /\ DOMAIN file_before[p].map # DOMAIN ledger_file.map
        /\ \A s \in DOMAIN file_before[p].map :
              ledger_file.map[s] = file_before[p].map[s]

----------------------------------------------------------------------------
(* Two processes on one ledger file *)

\* Two processes are started on the same feed and the same ledger file,
\* with every setting present.
InitTwo ==
    /\ now = 0
    /\ feed \in BoundedSeq(PipelineComponents, MaxFeed)
    /\ ledger_file \in {AbsentFile, json_dump(EmptyDict)}
    /\ environ = RequiredVars
    /\ procs = AllProcs
    /\ InitLocals

\* The runs made at process start by the two processes, step by step in any
\* order.
NextTwo ==
    \/ \E p \in AllProcs : main(p)
    \/ \E p \in AllProcs : LoadAndFilter(p)
    \/ \E p \in AllProcs : Dispatch(p)

SpecTwo == InitTwo /\ [][NextTwo]_vars

\* C18: last writer wins.  Whenever a run persists, the file becomes the
\* text of that run's own mapping (what it loaded plus its own successes),
\* whatever another run wrote to the file in between.
LastWriterWins ==
    [][\A p \in procs :
          (pc[p] = "dispatch" /\ result'[p] = "persisted") =>
              /\ ledger_file' = json_dump(sent_emails'[p])
              /\ DOMAIN sent_emails'[p].map =
                    (DOMAIN loaded[p].map) \cup
                    {dispatched'[p][k].event.summary :
                        k \in {j \in DOMAIN dispatched'[p] :
                                  dispatched'[p][j].outcome = "sent"}}]_vars

\* C18 witness: two runs interleaved and both have persisted; a title that
\* one of them emailed is not in the final file, and one event has been
\* emailed by both.
LostUpdateWitness ==
    \E p, q \in procs :
        /\ p # q
        /\ result[p] = "persisted"
        /\ result[q] = "persisted"
        /\ ledger_file.kind = "object"
        /\ \E k \in SentIn(p) :
              dispatched[p][k].event.summary \notin DOMAIN ledger_file.map
        /\ \E j \in SentIn(p), k \in SentIn(q) :
              /\ dispatched[p][j].event = dispatched[q][k].event
              /\ emails[EmailKey(dispatched[p][j].event)] >= 2

----------------------------------------------------------------------------
(* One process under the conditions of regular service *)

InitLive ==
    /\ now = 0
    /\ feed \in BoundedSeq(PipelineComponents, MaxFeed)
    /\ ledger_file \in InitialFiles
    /\ environ = RequiredVars
    /\ procs = {1}
    /\ InitLocals

\* the feed is served at every fetch, and every mail handed to the SMTP
\* server is accepted
RegularService ==
    \A p \in procs :
        /\ result[p] # "raised_fetch"
        /\ \A k \in DOMAIN dispatched[p] : dispatched[p][k].outcome = "sent"

\* no stop signal comes: the steps are those of main, of the scheduler and
\* of the runs
NextLive ==
    /\ \/ Tick
       \/ \E p \in AllProcs : main(p)
       \/ \E p \in AllProcs : start_scheduler(p)
       \/ \E p \in AllProcs : interval_job(p)
       \/ \E p \in AllProcs : LoadAndFilter(p)
       \/ \E p \in AllProcs : Dispatch(p)
    /\ RegularService'

\* The clock advances, the scheduler fires the job when it is due, and a
\* run that has started goes on to its end.
SpecLive == InitLive /\ [][NextLive]_vars /\ WF_vars(NextLive)

PipelineEvents == {EventOf(c) : c \in PipelineComponents}

\* a run's filter has set the instance aside as starting beyond the cutoff
Deferred(e) ==
    \E p \in procs :
        /\ filtered_at[p] >= 0
        /\ InSeq(e, events[p])
        /\ ~ InSeq(e, upcoming_events[p])

\* the instance has been emailed, at a time before its start
SentBeforeStart(e) ==
    \E p \in procs : \E k \in DOMAIN dispatched[p] :
        /\ dispatched[p][k].event = e
        /\ dispatched[p][k].outcome = "sent"
        /\ dispatched[p][k].at < Normalized(e)

\* the conditions of the claim do not hold for the instance: its title is in
\* the ledger, or runs are no longer triggered, or the observed time ends
\* with no run due and the instance still beyond the cutoff of the last run
Excused(e) ==
    \/ ledger_file.kind \in {"object", "list"}
          /\ contains(json_load(ledger_file), e.summary)
    \/ \E p \in procs : phase[p] = "exited"
    \/ /\ now = MaxTicks * INTERVAL_MINUTES
       /\ \E p \in procs :
             /\ phase[p] = "scheduler"
             /\ pc[p] = "idle"
             /\ next_fire[p] > now
             /\ filtered_at[p] >= 0
             /\ Normalized(e) >= filtered_at[p] + NEXT_HOURS * 60

====
